---- MODULE Spec2Model ----
(***************************************************************************)
(* Model of the medical-claims pipeline:                                   *)
(*   - src/producers/claims_producer.py : ClaimsProducer (send_claim,      *)
(*     send_claim_batch, send_alert, the two completion callbacks, the     *)
(*     statistics dictionary, get_stats, health_check, close);             *)
(*   - src/models/claims_schema.py : MedicalClaim (validators, attribute   *)
(*     assignment, calculate_totals) and ClaimBatch (validators, edits of  *)
(*     the claims list and of member claims).                              *)
(*                                                                         *)
(* Two threads act on a producer: the caller thread, which runs one        *)
(* public method at a time (its position is pc), and the messaging         *)
(* client's I/O thread, which completes in-flight sends and runs the       *)
(* callbacks registered with the client.  Money is kept in cents, so the   *)
(* Decimal('0.01') tolerance is 1.                                         *)
(***************************************************************************)
EXTENDS Integers, Sequences, FiniteSets, TLC

(* ------------------------------ bounds -------------------------------- *)
MaxBatch == 2      \* longest batch.claims handed to send_claim_batch
MaxAttempts == 2   \* claims and alerts handed to one producer instance
MaxTime  == 1      \* last value of the wall clock (datetime.utcnow())
MaxLines == 2      \* longest claim_lines of a MedicalClaim
MaxAmount == 1     \* largest amount (in cents) given to a constructor or setter

(* --------------------------- program values --------------------------- *)
None == "None"

\* Field(default=...)/config defaults of ClaimsProducer.__init__
topic_raw    == "medical-claims-raw"
topic_alerts == "medical-claims-alerts"

VARIABLES
    \* ---- ClaimsProducer ----
    pc,          \* position of the caller thread
    op,          \* public method the caller thread is in
    nAttempts,   \* claims and alerts handed to the producer so far
    callStatus,  \* "none" | "running" | "returned" | "raised"
    retval,      \* value returned by the last finished call
    batch,       \* batch.claims of the running send_claim_batch
    idx,         \* position of the for-loop over batch.claims (1-based)
    results,     \* the results dict of send_claim_batch
    cur,         \* the claim argument of the running send_claim
    future,      \* index in sends of the future send_claim/send_alert waits on
    tmp,         \* value read by a `stats[...] += 1` of the caller thread
    stats,       \* self.stats
    sends,       \* records handed to producer.send: those in flight, and the
                 \* completed one whose future the caller thread still holds
    closed,      \* producer.close() has run
    dispatch,    \* the client's contract for handlers given to add_callback
    now,         \* wall clock
    \* ---- history (not program state) ----
    log,         \* send_claim invocations of the running call, with outcome
    nDelivered,  \* send_claim/send_alert calls that ended delivered
    nFailed,     \* ... that ended timed out or send-failed
    nAlerts,     \* send_alert calls started
    nSubmitted,  \* records accepted by producer.send
    snapshot,    \* the dict returned by the last get_stats(): its scalar entries,
                 \* the content its errors entry had when it was returned, and
                 \* whether the caller has edited the returned errors list
    \* ---- MedicalClaim ----
    claim,       \* the MedicalClaim object the application holds (exists: there is one)
    raisedErr,   \* the last MedicalClaim operation raised a ValidationError
    \* ---- history (not program state) ----
    lastOp,      \* the last MedicalClaim operation: its name, for a constructor
                 \* call its arguments, for calculate_totals the operation before it
    \* ---- ClaimBatch ----
    claimBatch,  \* the ClaimBatch object the application holds (exists: there is one)
    batchErr     \* the ClaimBatch constructor raised a ValidationError

prodVars   == <<pc, op, nAttempts, callStatus, retval, batch, idx, results, cur,
                future, tmp, stats, sends, closed, dispatch, now,
                log, nDelivered, nFailed, nAlerts, nSubmitted, snapshot>>
schemaVars == <<claim, raisedErr, lastOp>>
batchVars  == <<claimBatch, batchErr>>
vars       == <<prodVars, schemaVars, batchVars>>

(* ------------------------------ inputs -------------------------------- *)
\* A claim as _validate_claim and send_claim read it.
ValidClaim ==
    [claim_id |-> "c1", claim_number |-> "CLM001", patient |-> "PAT001",
     provider |-> "PROV001", insurance |-> "INS001", claim_lines |-> <<150>>,
     total_billed_amount |-> 150, date_of_service |-> 0]

\* date_of_service one second after the initial clock value
FutureClaim  == [ValidClaim EXCEPT !.claim_id = "c2", !.date_of_service = 1]
ZeroClaim    == [ValidClaim EXCEPT !.claim_id = "c3", !.claim_lines = <<0>>,
                                   !.total_billed_amount = 0]

ClaimInputs == {ValidClaim, FutureClaim, ZeroClaim}

RECURSIVE SeqsUpTo(_, _)
SeqsUpTo(S, n) ==
    IF n = 0 THEN {<<>>}
    ELSE LET shorter == SeqsUpTo(S, n - 1)
         IN  shorter \cup {Append(s, x) : s \in {t \in shorter : Len(t) = n - 1}, x \in S}

BatchInputs == SeqsUpTo(ClaimInputs, MaxBatch) \ {<<>>}

\* claims that each miss one thing _validate_claim looks at
GateClaimInputs ==
    ClaimInputs \cup
    {[ValidClaim EXCEPT !.claim_id = None],
     [ValidClaim EXCEPT !.claim_id = ""],
     [ValidClaim EXCEPT !.claim_number = None],
     [ValidClaim EXCEPT !.claim_number = ""],
     [ValidClaim EXCEPT !.patient = None],
     [ValidClaim EXCEPT !.provider = None],
     [ValidClaim EXCEPT !.insurance = None],
     [ValidClaim EXCEPT !.claim_lines = <<>>],
     [ValidClaim EXCEPT !.total_billed_amount = 0 - 1]}

(* ----------------------- ClaimsProducer: helpers ---------------------- *)
\* self.stats as __init__ leaves it; last_send_time None is NoTime
NoTime == 0 - 1
NoSnapshot ==
    [taken |-> FALSE, messages_sent |-> 0, messages_failed |-> 0,
     bytes_sent |-> 0, last_send_time |-> NoTime, errors |-> <<>>, edited |-> FALSE]
InitStats ==
    [messages_sent |-> 0, messages_failed |-> 0, bytes_sent |-> 0,
     last_send_time |-> NoTime, errors |-> <<>>]

\* `not s` for a str-or-None attribute
Falsy(s) == s \in {None, ""}

\* _validate_claim with the amount gate written `< 0`
ValidateClaimZeroTotalPasses(c, t) ==
    IF Falsy(c.claim_id) \/ Falsy(c.claim_number) THEN FALSE
    ELSE IF c.patient = None \/ c.provider = None \/ c.insurance = None THEN FALSE
    ELSE IF Len(c.claim_lines) = 0 THEN FALSE
    ELSE IF c.total_billed_amount < 0 THEN FALSE
    ELSE IF c.date_of_service > t THEN FALSE
    ELSE TRUE

\* _validate_claim without the date gate
ValidateClaimNoDateGate(c, t) ==
    IF Falsy(c.claim_id) \/ Falsy(c.claim_number) THEN FALSE
    ELSE IF c.patient = None \/ c.provider = None \/ c.insurance = None THEN FALSE
    ELSE IF Len(c.claim_lines) = 0 THEN FALSE
    ELSE IF c.total_billed_amount <= 0 THEN FALSE
    ELSE TRUE

\* _validate_claim without the patient/provider/insurance gate
ValidateClaimNoEntityGate(c, t) ==
    IF Falsy(c.claim_id) \/ Falsy(c.claim_number) THEN FALSE
    ELSE IF Len(c.claim_lines) = 0 THEN FALSE
    ELSE IF c.total_billed_amount <= 0 THEN FALSE
    ELSE IF c.date_of_service > t THEN FALSE
    ELSE TRUE

\* _validate_claim: the gates in source order; t is datetime.utcnow()
ValidateClaim(c, t) ==
    IF Falsy(c.claim_id) \/ Falsy(c.claim_number) THEN FALSE
    ELSE IF c.patient = None \/ c.provider = None \/ c.insurance = None THEN FALSE
    ELSE IF Len(c.claim_lines) = 0 THEN FALSE
    ELSE IF c.total_billed_amount <= 0 THEN FALSE
    ELSE IF c.date_of_service > t THEN FALSE
    ELSE TRUE

\* The publish-time gates as the specification words them (section 4.2),
\* recorded in the history at the moment a claim is validated.
PublishGates(c, t) ==
    /\ c.claim_id \notin {None, ""} /\ c.claim_number \notin {None, ""}
    /\ c.patient # None /\ c.provider # None /\ c.insurance # None
    /\ c.claim_lines # <<>>
    /\ c.total_billed_amount > 0
    /\ ~(c.date_of_service > t)

\* size in bytes of the serialized message of _prepare_claim_message:
\* the envelope plus one unit per claim line
MessageSize(c) == 1 + Len(c.claim_lines)

\* _on_send_success(record_metadata) at time t
OnSendSuccess(s, md, t) ==
    [s EXCEPT !.messages_sent  = @ + 1,
              !.bytes_sent     = @ + md.size,
              !.last_send_time = t]

\* _on_send_error(exc) at time t; str(exc) is the text of the argument
OnSendError(s, exc, t) ==
    [s EXCEPT !.messages_failed = @ + 1,
              !.errors = Append(@, [timestamp |-> t, error |-> exc.text])]

\* _initialize_producer, lines 96-97: both handlers are registered through
\* the same add_callback; nothing is registered through an add_errback.
Callbacks == <<"_on_send_success", "_on_send_error">>
Errbacks  == <<>>

\* The messaging client is not part of the source, so both contracts its
\* add_callback can have are kept:
\*   "on_success": the handlers given to add_callback run, in registration
\*                 order, when a send succeeds; errbacks run when it fails;
\*   "by_outcome": the client routes a success to _on_send_success and a
\*                 failure to _on_send_error, as the handlers' names intend.
DispatchModes == {"on_success", "by_outcome"}
IsSuccessHandler(name) == name = "_on_send_success"
IsErrorHandler(name)   == name = "_on_send_error"
SuccessHandlers(mode) ==
    IF mode = "on_success" THEN Callbacks ELSE SelectSeq(Callbacks, IsSuccessHandler)
FailureHandlers(mode) ==
    IF mode = "on_success" THEN Errbacks ELSE SelectSeq(Callbacks, IsErrorHandler)

RunCallback(name, s, arg, t) ==
    IF name = "_on_send_success" THEN OnSendSuccess(s, arg, t)
    ELSE OnSendError(s, arg, t)

\* the client runs the registered handlers in registration order
RECURSIVE RunAll(_, _, _, _)
RunAll(cbs, s, arg, t) ==
    IF cbs = <<>> THEN s
    ELSE RunAll(Tail(cbs), RunCallback(Head(cbs), s, arg, t), arg, t)

\* the tally with the else branch lost
TallyLosesFailure(r, ok) ==
    IF ok THEN [r EXCEPT !.successful = @ + 1] ELSE r

\* the tally with a failure also counted as attempted-and-successful
TallyCountsBoth(r, ok) ==
    IF ok THEN [r EXCEPT !.successful = @ + 1]
    ELSE [r EXCEPT !.successful = @ + 1, !.failed = @ + 1]

\* send_claim_batch, lines 235-238: one claim's result enters the tally
Tally(r, ok) ==
    IF ok THEN [r EXCEPT !.successful = @ + 1]
    ELSE [r EXCEPT !.failed = @ + 1]

\* a loop that walks batch.claims from the end
ClaimAtReversed(b, i) == b[Len(b) + 1 - i]

\* send_claim_batch, line 233: the claim the for-loop yields at position i
ClaimAt(b, i) == b[i]

\* a timeout answered by sending the claim again
RetryAfterTimeout == "sc_entry"

\* send_claim, lines 202-205: where a KafkaTimeoutError from line 197 goes
AfterTimeout == "sc_fail_rd"

\* a loop that drops every second claim
NextIndexSkips(i) == i + 2

\* send_claim_batch, line 233: the for-loop moves to the next claim
NextIndex(i) == i + 1

\* a wait that takes a send still in flight for an acknowledged one
AcknowledgedOrPending(rec) == rec.state \in {"acked", "inflight"}

\* future.get(timeout=...) returns the record metadata
Acknowledged(rec) == rec.state = "acked"

InFlight(q) == {i \in 1..Len(q) : q[i].state = "inflight"}
IsInFlight(rec) == rec.state = "inflight"

\* a flush that does not wait
FlushDoneAtOnce(q) == TRUE

\* producer.flush() returns once no record is left in flight
FlushDone(q) == InFlight(q) = {}

\* send i completes with state st: the caller thread sees it through the
\* future it holds (index fut); a completed record nobody holds is dropped
Remove(q, i) == SubSeq(q, 1, i - 1) \o SubSeq(q, i + 1, Len(q))
Complete(q, i, st, fut) == IF i = fut THEN [q EXCEPT ![i].state = st] ELSE Remove(q, i)
Held(i, fut) == IF i < fut THEN fut - 1 ELSE fut

SetOutcome(l, o) == [l EXCEPT ![Len(l)].outcome = o]

(* ---------------------------- MedicalClaim ---------------------------- *)
\* Optional[Decimal]: None is <<>>, a value v is <<v>>
Absent == <<>>
Some(v) == <<v>>
\* truth value of an Optional[Decimal]: None and Decimal('0') are false
Truthy(o) == o # Absent /\ o[1] # 0
\* `o or Decimal('0')`
OrZero(o) == IF Truthy(o) THEN o[1] ELSE 0

Abs(x) == IF x < 0 THEN 0 - x ELSE x

NoClaim ==
    [exists |-> FALSE, claim_lines |-> <<>>, total_billed_amount |-> 0,
     total_allowed_amount |-> Absent, total_paid_amount |-> Absent,
     patient_responsibility |-> Absent]

\* ClaimLine objects as ClaimLine(...) builds them (validate_amounts holds)
LineInputs ==
    {[billed_amount |-> b, allowed_amount |-> Absent, paid_amount |-> Absent]
        : b \in 0..MaxAmount}
    \cup {[billed_amount |-> MaxAmount, allowed_amount |-> Some(1), paid_amount |-> Some(2)],
          [billed_amount |-> 0, allowed_amount |-> Some(0), paid_amount |-> Some(0)]}

LinesInputs  == SeqsUpTo(LineInputs, MaxLines)
AmountInputs == (0 - 1)..MaxAmount
\* total_allowed_amount, total_paid_amount, patient_responsibility as given
\* to the constructor
OptionalTotalsInputs ==
    {<<Absent, Absent, Absent>>, <<Some(1), Some(1), Some(0)>>,
     <<Some(0), Absent, Absent>>, <<Some(1), Some(0 - 1), Absent>>,
     <<Some(1), Some(1), Absent>>}

RECURSIVE SumBilled(_)
SumBilled(ls) == IF ls = <<>> THEN 0 ELSE Head(ls).billed_amount + SumBilled(Tail(ls))
RECURSIVE SumAllowed(_)
SumAllowed(ls) == IF ls = <<>> THEN 0 ELSE OrZero(Head(ls).allowed_amount) + SumAllowed(Tail(ls))
RECURSIVE SumPaid(_)
SumPaid(ls) == IF ls = <<>> THEN 0 ELSE OrZero(Head(ls).paid_amount) + SumPaid(Tail(ls))

\* history: operation name, constructor arguments, preceding operation
NoOp == [name |-> "none", args |-> NoClaim, prev |-> "none"]
Did(name) == [name |-> name, args |-> NoClaim, prev |-> "none"]

\* validate_total_amounts
ValidTotalAmount(o) == ~(o # Absent /\ o[1] < 0)
\* validate_claim_lines accepting every list
ValidClaimLinesAny(ls) == TRUE

\* validate_claim_lines
ValidClaimLines(ls) == ls # <<>>

\* validate_total_billed_matches_lines without the comparison
ValidTotalBilledNoCheck(v, ls, linesOk) == TRUE

\* validate_total_billed_matches_lines; linesOk: 'claim_lines' in values
ValidTotalBilledMatchesLines(v, ls, linesOk) ==
    linesOk => ~(Abs(v - SumBilled(ls)) > 1)

\* MedicalClaim(...): every field validator passes
ConstructOk(ls, tb, ta, tp, pr) ==
    /\ ValidClaimLines(ls)
    /\ ValidTotalAmount(Some(tb))
    /\ ValidTotalBilledMatchesLines(tb, ls, ValidClaimLines(ls))
    /\ ValidTotalAmount(ta) /\ ValidTotalAmount(tp) /\ ValidTotalAmount(pr)

Construct(ls, tb, ta, tp, pr) ==
    LET built == [exists |-> TRUE, claim_lines |-> ls, total_billed_amount |-> tb,
                  total_allowed_amount |-> ta, total_paid_amount |-> tp,
                  patient_responsibility |-> pr]
    IN
    \* the application builds one claim; a ValidationError ends the run
    /\ ~claim.exists /\ ~raisedErr
    /\ lastOp' = [name |-> "construct", args |-> built, prev |-> "none"]
    /\ IF ConstructOk(ls, tb, ta, tp, pr)
       THEN /\ claim' = built
            /\ raisedErr' = FALSE
       ELSE /\ raisedErr' = TRUE
            /\ UNCHANGED claim
    /\ UNCHANGED <<prodVars, batchVars>>

\* `claim.total_billed_amount = v`: the model class sets no validate_assignment,
\* so the attribute is stored and no validator runs
AssignTotalBilled(v) ==
    /\ claim.exists
    /\ claim' = [claim EXCEPT !.total_billed_amount = v]
    /\ raisedErr' = FALSE /\ lastOp' = Did("assign")
    /\ UNCHANGED <<prodVars, batchVars>>

\* `claim.claim_lines = ls`
AssignClaimLines(ls) ==
    /\ claim.exists
    /\ claim' = [claim EXCEPT !.claim_lines = ls]
    /\ raisedErr' = FALSE /\ lastOp' = Did("assign")
    /\ UNCHANGED <<prodVars, batchVars>>

\* `claim.claim_lines.append(l)`
AppendLine(l) ==
    /\ claim.exists /\ Len(claim.claim_lines) < MaxLines
    /\ claim' = [claim EXCEPT !.claim_lines = Append(@, l)]
    /\ raisedErr' = FALSE /\ lastOp' = Did("assign")
    /\ UNCHANGED <<prodVars, batchVars>>

\* `claim.claim_lines[i].billed_amount = v`
AssignLineBilled(i, v) ==
    /\ claim.exists /\ i \in 1..Len(claim.claim_lines)
    /\ claim' = [claim EXCEPT !.claim_lines[i].billed_amount = v]
    /\ raisedErr' = FALSE /\ lastOp' = Did("set_line_billed")
    /\ UNCHANGED <<prodVars, batchVars>>

\* calculate_totals, lines 197-204
AnyAllowed(ls) == \E i \in 1..Len(ls) : Truthy(ls[i].allowed_amount)
AnyPaid(ls)    == \E i \in 1..Len(ls) : Truthy(ls[i].paid_amount)
\* calculate_totals adding the line sum to the stored total
RecalculatedAccumulates(c) ==
    [c EXCEPT !.total_billed_amount = @ + SumBilled(c.claim_lines)]

\* calculate_totals leaving total_billed_amount as it was
RecalculatedStaleBilled(c) == c

Recalculated(c) ==
    LET ls == c.claim_lines
        ta == IF AnyAllowed(ls) THEN Some(SumAllowed(ls)) ELSE c.total_allowed_amount
        tp == IF AnyPaid(ls) THEN Some(SumPaid(ls)) ELSE c.total_paid_amount
    IN  [c EXCEPT !.total_billed_amount = SumBilled(ls),
                  !.total_allowed_amount = ta,
                  !.total_paid_amount = tp,
                  !.patient_responsibility =
                      IF Truthy(ta) /\ Truthy(tp) THEN Some(ta[1] - tp[1]) ELSE @]

CalculateTotals ==
    /\ claim.exists
    /\ claim' = Recalculated(claim)
    /\ raisedErr' = FALSE
    /\ lastOp' = [name |-> "calculate_totals", args |-> NoClaim, prev |-> lastOp.name]
    /\ UNCHANGED <<prodVars, batchVars>>

SchemaNext ==
    \/ \E ls \in LinesInputs, tb \in AmountInputs, o \in OptionalTotalsInputs :
            Construct(ls, tb, o[1], o[2], o[3])
    \/ \E v \in AmountInputs : AssignTotalBilled(v)
    \/ \E ls \in SeqsUpTo(LineInputs, 1) : AssignClaimLines(ls)
    \/ \E l \in LineInputs : AppendLine(l)
    \/ \E v \in AmountInputs : AssignLineBilled(1, v)
    \/ CalculateTotals

(* ----------------------------- ClaimBatch ----------------------------- *)
NoBatch == [exists |-> FALSE, claims |-> <<>>, total_claims |-> 0, total_billed_amount |-> 0]

\* MedicalClaim objects as MedicalClaim(...) builds them: one line, the total
\* equal to it, no allowed or paid amounts
MemberInputs ==
    {[exists |-> TRUE,
      claim_lines |-> <<[billed_amount |-> b, allowed_amount |-> Absent, paid_amount |-> Absent]>>,
      total_billed_amount |-> b, total_allowed_amount |-> Absent,
      total_paid_amount |-> Absent, patient_responsibility |-> Absent] : b \in 0..MaxAmount}
ClaimsInputs      == SeqsUpTo(MemberInputs, MaxBatch)
TotalClaimsInputs == 0..MaxBatch
BatchTotalInputs  == 0..(MaxBatch * MaxAmount)

RECURSIVE SumTotals(_)
SumTotals(cs) == IF cs = <<>> THEN 0 ELSE Head(cs).total_billed_amount + SumTotals(Tail(cs))

\* validate_claims
ValidClaims(cs) == cs # <<>>
\* validate_total_claims; claimsOk: 'claims' in values
ValidTotalClaims(v, cs, claimsOk) == ~(claimsOk /\ v # Len(cs))
\* validate_total_billed_amount
ValidBatchTotal(v, cs, claimsOk) == claimsOk => ~(Abs(v - SumTotals(cs)) > 1)

\* ClaimBatch(...): every field validator passes
ConstructBatchOk(cs, n, tb) ==
    /\ ValidClaims(cs)
    /\ ValidTotalClaims(n, cs, ValidClaims(cs))
    /\ ValidBatchTotal(tb, cs, ValidClaims(cs))

ConstructBatch(cs, n, tb) ==
    \* the application builds one batch; a ValidationError ends the run
    /\ ~claimBatch.exists /\ ~batchErr
    /\ IF ConstructBatchOk(cs, n, tb)
       THEN /\ claimBatch' = [exists |-> TRUE, claims |-> cs, total_claims |-> n,
                              total_billed_amount |-> tb]
            /\ batchErr' = FALSE
       ELSE /\ batchErr' = TRUE
            /\ UNCHANGED claimBatch
    /\ UNCHANGED <<prodVars, schemaVars>>

\* `batch.claims.append(c)`: the list is edited in place, no validator runs
AppendClaim(c) ==
    /\ claimBatch.exists /\ Len(claimBatch.claims) < MaxBatch
    /\ claimBatch' = [claimBatch EXCEPT !.claims = Append(@, c)]
    /\ UNCHANGED <<batchErr, prodVars, schemaVars>>

\* `batch.claims.pop()`
PopClaim ==
    /\ claimBatch.exists /\ claimBatch.claims # <<>>
    /\ claimBatch' = [claimBatch EXCEPT !.claims = SubSeq(@, 1, Len(@) - 1)]
    /\ UNCHANGED <<batchErr, prodVars, schemaVars>>

\* `batch.claims[i].claim_lines[0].billed_amount = v`
EditMemberLine(i, v) ==
    /\ claimBatch.exists /\ i \in 1..Len(claimBatch.claims)
    /\ claimBatch' = [claimBatch EXCEPT !.claims[i].claim_lines[1].billed_amount = v]
    /\ UNCHANGED <<batchErr, prodVars, schemaVars>>

\* `batch.claims[i].calculate_totals()`
MemberCalculateTotals(i) ==
    /\ claimBatch.exists /\ i \in 1..Len(claimBatch.claims)
    /\ claimBatch' = [claimBatch EXCEPT !.claims[i] = Recalculated(@)]
    /\ UNCHANGED <<batchErr, prodVars, schemaVars>>

BatchSchemaNext ==
    \/ \E cs \in ClaimsInputs, n \in TotalClaimsInputs, tb \in BatchTotalInputs :
            ConstructBatch(cs, n, tb)
    \/ \E c \in MemberInputs : AppendClaim(c)
    \/ PopClaim
    \/ \E i \in 1..MaxBatch, v \in AmountInputs : EditMemberLine(i, v)
    \/ \E i \in 1..MaxBatch : MemberCalculateTotals(i)

(* ------------------------------- Init --------------------------------- *)
Init ==
    /\ pc = "idle" /\ op = None /\ nAttempts = 0
    /\ callStatus = "none"
    /\ retval = None /\ batch = <<>> /\ idx = 0
    /\ results = [total |-> 0, successful |-> 0, failed |-> 0]
    /\ cur = ValidClaim /\ future = 0 /\ tmp = 0
    /\ stats = InitStats /\ sends = <<>> /\ closed = FALSE /\ now = 0
    /\ dispatch \in DispatchModes
    /\ log = <<>> /\ nDelivered = 0 /\ nFailed = 0 /\ nAlerts = 0 /\ nSubmitted = 0
    /\ snapshot = NoSnapshot
    /\ claim = NoClaim /\ raisedErr = FALSE /\ lastOp = NoOp
    /\ claimBatch = NoBatch /\ batchErr = FALSE

(* ------------------ ClaimsProducer: the caller thread ----------------- *)
\* a public call starts: the caller has dropped the values earlier calls
\* returned (futures of completed sends, a statistics snapshot)
BeginCall(name, n) ==
    /\ pc = "idle" /\ nAttempts + n <= MaxAttempts
    /\ nAttempts' = nAttempts + n
    /\ op' = name /\ callStatus' = "running"
    /\ log' = <<>> /\ future' = 0 /\ tmp' = 0 /\ retval' = None
    /\ snapshot' = NoSnapshot

Forget(q) == SelectSeq(q, IsInFlight)

\* the sends still in flight when a new public call starts belong to earlier calls
Earlier(q) == [i \in 1..Len(Forget(q)) |-> [Forget(q)[i] EXCEPT !.inCall = FALSE]]

\* send_claim returns v: to its caller, or into the loop of send_claim_batch
SendClaimReturn(v) ==
    /\ future' = 0 /\ tmp' = 0 /\ sends' = Forget(sends)
    /\ IF op = "send_claim"
       THEN /\ pc' = "idle" /\ callStatus' = "returned"
            /\ retval' = IF v THEN "True" ELSE "False"
            /\ UNCHANGED <<results, idx, cur>>
       ELSE /\ results' = Tally(results, v)
            /\ idx' = NextIndex(idx)
            /\ UNCHANGED <<retval, callStatus>>
            /\ IF NextIndex(idx) <= Len(batch)
               THEN pc' = "sc_entry" /\ cur' = ClaimAt(batch, NextIndex(idx))
               ELSE pc' = "b_flush" /\ UNCHANGED cur

CallSendClaim(c) ==
    /\ BeginCall("send_claim", 1)
    /\ cur' = c /\ pc' = "sc_entry" /\ sends' = Earlier(sends)
    /\ batch' = <<>> /\ idx' = 0
    /\ results' = [total |-> 0, successful |-> 0, failed |-> 0]
    /\ UNCHANGED <<dispatch, nAlerts, stats, closed, now,
                   nDelivered, nFailed, nSubmitted, schemaVars, batchVars>>

CallSendClaimBatch(b) ==
    /\ BeginCall("send_claim_batch", Len(b))
    /\ batch' = b /\ idx' = 1 /\ cur' = ClaimAt(b, 1) /\ pc' = "sc_entry"
    /\ results' = [total |-> Len(b), successful |-> 0, failed |-> 0]
    /\ sends' = Earlier(sends)
    /\ UNCHANGED <<dispatch, nAlerts, stats, closed, now,
                   nDelivered, nFailed, nSubmitted, schemaVars, batchVars>>

\* lines 173-175: validation fails, return False
SendClaimReject ==
    /\ pc = "sc_entry" /\ ~ValidateClaim(cur, now)
    /\ log' = Append(log, [claim |-> cur, gates |-> PublishGates(cur, now), outcome |-> "rejected"])
    /\ SendClaimReturn(FALSE)
    /\ UNCHANGED <<dispatch, nAlerts, op, nAttempts, batch, stats, closed, now,
                   nDelivered, nFailed, nSubmitted, snapshot, schemaVars, batchVars>>

\* lines 177-194: producer.send accepts the record and hands back a future
SendClaimSubmit ==
    /\ pc = "sc_entry" /\ ValidateClaim(cur, now) /\ ~closed
    /\ sends' = Append(sends, [inCall |-> TRUE, state |-> "inflight",
                               topic |-> topic_raw, size |-> MessageSize(cur)])
    /\ future' = Len(sends) + 1
    /\ nSubmitted' = nSubmitted + 1
    /\ log' = Append(log, [claim |-> cur, gates |-> PublishGates(cur, now), outcome |-> "pending"])
    /\ pc' = "sc_wait"
    /\ UNCHANGED <<dispatch, nAlerts, op, nAttempts, callStatus, retval, batch, idx, results, cur, tmp,
                   stats, closed, now, nDelivered, nFailed, snapshot, schemaVars, batchVars>>

\* lines 181-194 raise (closed producer, serialization, metadata timeout):
\* caught at line 202 or 207
SendClaimSendRaises ==
    /\ pc = "sc_entry" /\ ValidateClaim(cur, now)
    /\ log' = Append(log, [claim |-> cur, gates |-> PublishGates(cur, now), outcome |-> "exception"])
    /\ pc' = "sc_fail_rd"
    /\ UNCHANGED <<dispatch, nAlerts, op, nAttempts, callStatus, retval, batch, idx, results, cur, future,
                   tmp, stats, sends, closed, now, nDelivered, nFailed, nSubmitted,
                   snapshot, schemaVars, batchVars>>

\* line 197 returns the record metadata; lines 199-200
SendClaimDelivered ==
    /\ pc = "sc_wait" /\ Acknowledged(sends[future])
    /\ log' = SetOutcome(log, "delivered")
    /\ nDelivered' = nDelivered + 1
    /\ SendClaimReturn(TRUE)
    /\ UNCHANGED <<dispatch, nAlerts, op, nAttempts, batch, stats, closed, now,
                   nFailed, nSubmitted, snapshot, schemaVars, batchVars>>

\* line 197 re-raises the send's error: caught at line 207
SendClaimGetRaises ==
    /\ pc = "sc_wait" /\ sends[future].state = "failed"
    /\ log' = SetOutcome(log, "send_failed")
    /\ pc' = "sc_fail_rd"
    /\ UNCHANGED <<dispatch, nAlerts, op, nAttempts, callStatus, retval, batch, idx, results, cur, future,
                   tmp, stats, sends, closed, now, nDelivered, nFailed, nSubmitted,
                   snapshot, schemaVars, batchVars>>

\* line 197 gives up after 30 s with the send still in flight: line 202
SendClaimTimeout ==
    /\ pc = "sc_wait" /\ sends[future].state = "inflight"
    /\ log' = SetOutcome(log, "timed_out")
    /\ pc' = AfterTimeout
    /\ UNCHANGED <<dispatch, nAlerts, op, nAttempts, callStatus, retval, batch, idx, results, cur, future,
                   tmp, stats, sends, closed, now, nDelivered, nFailed, nSubmitted,
                   snapshot, schemaVars, batchVars>>

\* lines 204/209, `self.stats['messages_failed'] += 1`: the read ...
SendClaimFailRead ==
    /\ pc = "sc_fail_rd"
    /\ tmp' = stats.messages_failed
    /\ pc' = "sc_fail_wr"
    /\ UNCHANGED <<dispatch, nAlerts, op, nAttempts, callStatus, retval, batch, idx, results, cur, future,
                   stats, sends, closed, now, log, nDelivered, nFailed, nSubmitted,
                   snapshot, schemaVars, batchVars>>

\* ... and the write, then return False (lines 205/210)
SendClaimFailWrite ==
    /\ pc = "sc_fail_wr"
    /\ stats' = [stats EXCEPT !.messages_failed = tmp + 1]
    /\ nFailed' = nFailed + 1
    /\ SendClaimReturn(FALSE)
    /\ UNCHANGED <<dispatch, nAlerts, op, nAttempts, batch, closed, now, log,
                   nDelivered, nSubmitted, snapshot, schemaVars, batchVars>>

\* line 248 returns; lines 250-253
BatchFlushReturn ==
    /\ pc = "b_flush" /\ FlushDone(sends)
    /\ pc' = "idle" /\ callStatus' = "returned"
    /\ UNCHANGED <<dispatch, nAlerts, op, nAttempts, retval, batch, idx, results, cur, future, tmp, stats,
                   sends, closed, now, log, nDelivered, nFailed, nSubmitted,
                   snapshot, schemaVars, batchVars>>

\* line 248 raises: nothing catches it, the call ends without a return value
BatchFlushRaises ==
    /\ pc = "b_flush"
    /\ pc' = "idle" /\ callStatus' = "raised"
    /\ UNCHANGED <<dispatch, nAlerts, op, nAttempts, retval, batch, idx, results, cur, future, tmp, stats,
                   sends, closed, now, log, nDelivered, nFailed, nSubmitted,
                   snapshot, schemaVars, batchVars>>

(* ----------------------------- send_alert ------------------------------ *)
CallSendAlert ==
    /\ BeginCall("send_alert", 1)
    /\ pc' = "al_entry" /\ nAlerts' = nAlerts + 1 /\ sends' = Earlier(sends)
    /\ batch' = <<>> /\ idx' = 0
    /\ results' = [total |-> 0, successful |-> 0, failed |-> 0]
    /\ UNCHANGED <<dispatch, cur, stats, closed, now, nDelivered, nFailed, nSubmitted,
                   schemaVars, batchVars>>

\* a bool-returning public method returns v
ReturnBool(v) ==
    /\ pc' = "idle" /\ callStatus' = "returned"
    /\ retval' = IF v THEN "True" ELSE "False"
    /\ future' = 0

\* lines 267-281: the envelope is built and producer.send accepts it
AlertSubmit ==
    /\ pc = "al_entry" /\ ~closed
    /\ sends' = Append(sends, [inCall |-> TRUE, state |-> "inflight",
                               topic |-> topic_alerts, size |-> 1])
    /\ future' = Len(sends) + 1
    /\ nSubmitted' = nSubmitted + 1
    /\ pc' = "al_wait"
    /\ UNCHANGED <<dispatch, nAlerts, op, nAttempts, callStatus, retval, batch, idx, results, cur, tmp,
                   stats, closed, now, log, nDelivered, nFailed, snapshot, schemaVars, batchVars>>

\* lines 267-281 raise: line 288 catches, line 290 returns False
AlertSendRaises ==
    /\ pc = "al_entry"
    /\ ReturnBool(FALSE)
    /\ nFailed' = nFailed + 1
    /\ UNCHANGED <<dispatch, nAlerts, op, nAttempts, batch, idx, results, cur, tmp, stats, sends,
                   closed, now, log, nDelivered, nSubmitted, snapshot, schemaVars, batchVars>>

\* line 283 returns the metadata; lines 285-286
AlertDelivered ==
    /\ pc = "al_wait" /\ Acknowledged(sends[future])
    /\ ReturnBool(TRUE)
    /\ sends' = Forget(sends)
    /\ nDelivered' = nDelivered + 1
    /\ UNCHANGED <<dispatch, nAlerts, op, nAttempts, batch, idx, results, cur, tmp, stats,
                   closed, now, log, nFailed, nSubmitted, snapshot, schemaVars, batchVars>>

\* line 283 re-raises the send's error, or gives up after 10 s with the
\* send still in flight: line 288 catches both, line 290 returns False
AlertGetRaises ==
    /\ pc = "al_wait" /\ sends[future].state \in {"failed", "inflight"}
    /\ ReturnBool(FALSE)
    /\ sends' = Forget(sends)
    /\ nFailed' = nFailed + 1
    /\ UNCHANGED <<dispatch, nAlerts, op, nAttempts, batch, idx, results, cur, tmp, stats,
                   closed, now, log, nDelivered, nSubmitted, snapshot, schemaVars, batchVars>>

(* ------------------- get_stats, health_check, close ------------------- *)
\* a public call that neither sends nor blocks starts and returns in one
\* step; the values earlier calls returned are dropped as in BeginCall
QuickCall(name) ==
    /\ pc = "idle"
    /\ op' = name /\ callStatus' = "returned"
    /\ log' = <<>> /\ batch' = <<>> /\ idx' = 0
    /\ results' = [total |-> 0, successful |-> 0, failed |-> 0]
    /\ UNCHANGED <<dispatch, nAlerts, pc, nAttempts, cur, future, tmp, stats, sends, closed, now,
                   nDelivered, nFailed, nSubmitted, schemaVars, batchVars>>

\* lines 351-361: the scalar entries of self.stats are copied into a new dict
\* (the errors entry is the same list object as self.stats['errors'])
GetStats ==
    /\ QuickCall("get_stats")
    /\ retval' = None
    /\ snapshot' = [taken |-> TRUE,
                    messages_sent |-> stats.messages_sent,
                    messages_failed |-> stats.messages_failed,
                    bytes_sent |-> stats.bytes_sent,
                    last_send_time |-> stats.last_send_time,
                    errors |-> stats.errors, edited |-> FALSE]

\* the errors entry of the returned dict is the list object self.stats['errors']
\* (`**self.stats` copies the reference): what the caller reads through it now
ReturnedErrors == stats.errors

\* `s = producer.get_stats(); s['errors'].clear()`
SnapshotErrorsClear ==
    /\ pc = "idle" /\ snapshot.taken /\ ~snapshot.edited
    /\ snapshot' = [snapshot EXCEPT !.edited = TRUE]
    /\ stats' = [stats EXCEPT !.errors = <<>>]
    /\ UNCHANGED <<pc, op, nAttempts, callStatus, retval, batch, idx, results, cur,
                   future, tmp, sends, closed, dispatch, now, log, nDelivered,
                   nFailed, nAlerts, nSubmitted, schemaVars, batchVars>>

\* lines 365-371: partitions_for succeeds or raises
HealthCheck(ok) ==
    /\ QuickCall("health_check")
    /\ retval' = IF ok THEN "True" ELSE "False"
    /\ snapshot' = NoSnapshot

\* line 375: close() enters its try block
CallClose ==
    /\ pc = "idle" /\ ~closed
    /\ op' = "close" /\ callStatus' = "running" /\ retval' = None
    /\ pc' = "cl_flush"
    /\ log' = <<>> /\ batch' = <<>> /\ idx' = 0 /\ snapshot' = NoSnapshot
    /\ results' = [total |-> 0, successful |-> 0, failed |-> 0]
    /\ UNCHANGED <<dispatch, nAlerts, nAttempts, cur, future, tmp, stats, sends,
                   closed, now, nDelivered, nFailed, nSubmitted, schemaVars, batchVars>>

\* lines 377-379: flush returns, the producer is closed
CloseFlushReturn ==
    /\ pc = "cl_flush" /\ FlushDone(sends)
    /\ closed' = TRUE
    /\ pc' = "idle" /\ callStatus' = "returned"
    /\ UNCHANGED <<dispatch, nAlerts, op, nAttempts, retval, batch, idx, results, cur, future, tmp, stats,
                   sends, now, log, nDelivered, nFailed, nSubmitted, snapshot,
                   schemaVars, batchVars>>

\* line 377 or 378 raises: lines 380-381 log it, close() returns
CloseRaises ==
    /\ pc = "cl_flush"
    /\ pc' = "idle" /\ callStatus' = "returned"
    /\ UNCHANGED <<dispatch, nAlerts, op, nAttempts, retval, batch, idx, results, cur, future, tmp, stats,
                   sends, closed, now, log, nDelivered, nFailed, nSubmitted, snapshot,
                   schemaVars, batchVars>>

(* ----------------- the messaging client's I/O thread ------------------ *)
\* the backend acknowledges send i; the client runs the success callbacks
BackendAck(i) ==
    /\ sends[i].state = "inflight"
    /\ sends' = Complete(sends, i, "acked", future)
    /\ future' = Held(i, future)
    /\ stats' = RunAll(SuccessHandlers(dispatch), stats,
                       [text |-> "RecordMetadata", size |-> sends[i].size], now)
    /\ UNCHANGED <<dispatch, nAlerts, pc, op, nAttempts, callStatus, retval, batch, idx, results, cur,
                   tmp, closed, now, log, nDelivered, nFailed, nSubmitted,
                   snapshot, schemaVars, batchVars>>

\* send i fails for good; the client runs the failure callbacks
BackendFail(i) ==
    /\ sends[i].state = "inflight"
    /\ sends' = Complete(sends, i, "failed", future)
    /\ future' = Held(i, future)
    /\ stats' = RunAll(FailureHandlers(dispatch), stats, [text |-> "KafkaError", size |-> 0], now)
    /\ UNCHANGED <<dispatch, nAlerts, pc, op, nAttempts, callStatus, retval, batch, idx, results, cur,
                   tmp, closed, now, log, nDelivered, nFailed, nSubmitted,
                   snapshot, schemaVars, batchVars>>

\* the wall clock advances
Tick ==
    /\ now < MaxTime
    /\ now' = now + 1
    /\ UNCHANGED <<dispatch, nAlerts, pc, op, nAttempts, callStatus, retval, batch, idx, results, cur,
                   future, tmp, stats, sends, closed, log, nDelivered, nFailed,
                   nSubmitted, snapshot, schemaVars, batchVars>>

Next ==
    \/ \E c \in ClaimInputs : CallSendClaim(c)
    \/ \E b \in BatchInputs : CallSendClaimBatch(b)
    \/ SendClaimReject
    \/ SendClaimSubmit
    \/ SendClaimSendRaises
    \/ SendClaimDelivered
    \/ SendClaimGetRaises
    \/ SendClaimTimeout
    \/ SendClaimFailRead
    \/ SendClaimFailWrite
    \/ BatchFlushReturn
    \/ BatchFlushRaises
    \/ CallSendAlert
    \/ AlertSubmit
    \/ AlertSendRaises
    \/ AlertDelivered
    \/ AlertGetRaises
    \/ GetStats
    \/ SnapshotErrorsClear
    \/ \E ok \in BOOLEAN : HealthCheck(ok)
    \/ CallClose
    \/ CloseFlushReturn
    \/ CloseRaises
    \/ \E i \in 1..Len(sends) : BackendAck(i)
    \/ \E i \in 1..Len(sends) : BackendFail(i)
    \/ Tick

Spec == Init /\ [][Next]_vars

SchemaSpec == Init /\ [][SchemaNext]_vars

\* single send_claim calls over claims that each miss one gate
GateNext ==
    \/ \E c \in GateClaimInputs : CallSendClaim(c)
    \/ SendClaimReject
    \/ SendClaimSubmit
    \/ SendClaimSendRaises
    \/ SendClaimDelivered
    \/ SendClaimGetRaises
    \/ SendClaimTimeout
    \/ SendClaimFailRead
    \/ SendClaimFailWrite
    \/ \E i \in 1..Len(sends) : BackendAck(i)
    \/ \E i \in 1..Len(sends) : BackendFail(i)
    \/ Tick

GateSpec == Init /\ [][GateNext]_vars

BatchSchemaSpec == Init /\ [][BatchSchemaNext]_vars

(* ====================================================================== *)
(*                               Properties                               *)
(* ====================================================================== *)
Last(l) == l[Len(l)]
BatchReturned == op = "send_claim_batch" /\ callStatus = "returned"
BatchEnded    == op = "send_claim_batch" /\ callStatus \in {"returned", "raised"}
FailureOutcomes == {"rejected", "timed_out", "send_failed", "exception"}
Having(l, outcomes) == {i \in 1..Len(l) : l[i].outcome \in outcomes}
GateFailures(l) == {i \in 1..Len(l) : ~l[i].gates}

\* C1: whatever the per-claim outcomes were, the result of a send_claim_batch
\* call that returns has total = successful + failed = number of claims.
C1_TallyAddsUp ==
    BatchReturned =>
        /\ results.total = results.successful + results.failed
        /\ results.total = Len(batch)

\* a returned batch of two claims, one delivered and one that timed out
C1_Witness ==
    /\ BatchReturned /\ Len(batch) = 2
    /\ Having(log, {"delivered"}) # {} /\ Having(log, {"timed_out"}) # {}

\* C2: a batch of N claims of which M fail the publish-time gates, every
\* other claim being acknowledged, returns {total: N, successful: N-M,
\* failed: M}; and once nothing is in flight the flush barrier can return,
\* also when nothing was submitted.
C2_BatchOfInvalidClaims ==
    /\ (BatchReturned /\ \A i \in 1..Len(log) : log[i].gates => log[i].outcome = "delivered")
        => /\ Len(log) = Len(batch)
           /\ results = [total      |-> Len(batch),
                         successful |-> Len(batch) - Cardinality(GateFailures(log)),
                         failed     |-> Cardinality(GateFailures(log))]
    /\ (pc = "b_flush" /\ InFlight(sends) = {}) => ENABLED BatchFlushReturn

\* a returned batch of two claims that both failed the gates: M = N
C2_Witness ==
    /\ BatchReturned /\ Len(batch) = 2 /\ Cardinality(GateFailures(log)) = 2
    /\ nSubmitted = 0 /\ results.failed = 2

\* C3: a send_claim whose claim fails the publish-time gates ends there with
\* a negative result and without raising, hands nothing to the backend and
\* leaves the statistics as they were.
C3_RejectionLeavesNoTrace ==
    [][(pc = "sc_entry" /\ ~PublishGates(cur, now) /\ log' # log)
        => /\ Last(log').outcome = "rejected"
           /\ stats' = stats /\ sends' = sends /\ nSubmitted' = nSubmitted
           /\ callStatus' # "raised"
           /\ IF op = "send_claim"
              THEN callStatus' = "returned" /\ retval' = "False"
              ELSE results'.failed = results.failed + 1
                   /\ results'.successful = results.successful]_vars

\* send_claim has returned False for the claim dated one second ahead
C3_Witness ==
    /\ op = "send_claim" /\ callStatus = "returned" /\ retval = "False"
    /\ Len(log) = 1 /\ log[1].claim = FutureClaim /\ log[1].outcome = "rejected"
    /\ FutureClaim.date_of_service = now + 1
    /\ stats = InitStats /\ nSubmitted = 0

\* C4: on a producer that has sent claims only, once every send has
\* completed, messages_sent is the number K of sends that ended delivered
\* and messages_failed the number J of sends that ended failed.
C4_CountersMatchOutcomes ==
    (pc = "idle" /\ InFlight(sends) = {} /\ nAlerts = 0)
        => stats.messages_sent = nDelivered /\ stats.messages_failed = nFailed

\* C5: the first send_claim of a producer, when it returns delivered, has
\* raised messages_sent to 1 and left messages_failed at 0; when it returns
\* timed out or send-failed, it has raised messages_failed to 1 and left
\* messages_sent at 0.
C5_OneUpdatePerSend ==
    [][(op = "send_claim" /\ nAttempts = 1 /\ callStatus = "running"
            /\ callStatus' = "returned")
        => /\ Last(log').outcome = "delivered"
                => stats'.messages_sent = 1 /\ stats'.messages_failed = 0
           /\ Last(log').outcome \in {"timed_out", "send_failed"}
                => stats'.messages_sent = 0 /\ stats'.messages_failed = 1]_vars

\* C6: no step of the caller thread (send_claim, send_claim_batch,
\* send_alert, get_stats, health_check, close) changes the statistics: only
\* the completion callbacks, run by the client's thread, write them.
C6_OnlyCallbacksWrite ==
    [][stats' # stats => UNCHANGED <<pc, op, callStatus, retval, results, log, nFailed>>]_vars

\* C7: when send_claim_batch returns, no send submitted by that call is
\* still in flight.
C7_NothingInFlightAtReturn ==
    BatchReturned => \A i \in 1..Len(sends) : sends[i].inCall => sends[i].state # "inflight"

\* a returned batch one of whose sends had timed out inside send_claim
C7_Witness ==
    /\ BatchReturned /\ Having(log, {"timed_out"}) # {} /\ nSubmitted > 0

\* C8: a batch call that has ended attempted every claim exactly once, in
\* order, whatever failed; failures show in the failed count.
C8_EveryClaimAttemptedOnce ==
    /\ op = "send_claim_batch" => Len(log) <= Len(batch)
    /\ BatchEnded =>
        /\ Len(log) = Len(batch)
        /\ \A i \in 1..Len(log) : log[i].claim = batch[i] /\ log[i].outcome # "pending"
        /\ results.failed = Cardinality(Having(log, FailureOutcomes))
        /\ results.successful = Cardinality(Having(log, {"delivered"}))

\* a returned batch whose first claim raised in send and whose second was delivered
C8_Witness ==
    /\ BatchReturned /\ Len(batch) = 2
    /\ log[1].outcome = "exception" /\ log[2].outcome = "delivered"

\* C9 as stated: a send_claim_batch call never ends with an exception.
C9_AlwaysReturnsTally ==
    op = "send_claim_batch" => callStatus # "raised"

\* C9 as amended: a send_claim_batch call ends only at the flush barrier,
\* after every claim was attempted; it raises only when the flush raises,
\* and otherwise returns the complete tally, also after failed sends.
C9_TallyUnlessFlushRaises ==
    [][(op = "send_claim_batch" /\ callStatus = "running" /\ callStatus' # "running")
        => /\ pc = "b_flush" /\ Len(log) = Len(batch)
           /\ results' = results
           /\ results.total = results.successful + results.failed
           /\ results.total = Len(batch)
           /\ callStatus' \in {"returned", "raised"}]_vars

\* a batch that returned its tally although the backend failed one of its sends
C9_Witness ==
    /\ BatchReturned /\ Having(log, {"send_failed"}) # {}
    /\ results.failed >= 1

\* C10: a constructed MedicalClaim always has a non-empty claim_lines and a
\* total_billed_amount within 0.01 of the sum of its lines' billed amounts.
C10_InvariantsAfterAssignment ==
    claim.exists =>
        /\ claim.claim_lines # <<>>
        /\ Abs(claim.total_billed_amount - SumBilled(claim.claim_lines)) <= 1

(* --------------------------- MedicalClaim ----------------------------- *)
Constructed == lastOp.name = "construct"
Recalculating == lastOp'.name = "calculate_totals"
Totals(c) == <<c.total_billed_amount, c.total_allowed_amount, c.total_paid_amount,
               c.patient_responsibility>>
HasAllowed(ls) == \E i \in 1..Len(ls) : ls[i].allowed_amount # Absent
HasPaid(ls)    == \E i \in 1..Len(ls) : ls[i].paid_amount # Absent
NonNegative(o) == o = Absent \/ o[1] >= 0

\* C11: a MedicalClaim(...) call succeeds only if total_billed_amount is
\* within 0.01 of the sum of the lines' billed amounts; with any other total
\* and lines it raises a validation error and builds no claim.
C11_ConstructionChecksTotal ==
    Constructed =>
        LET a    == lastOp.args
            diff == Abs(a.total_billed_amount - SumBilled(a.claim_lines))
        IN  /\ ~raisedErr => (diff <= 1 /\ claim = a)
            /\ diff > 1 => (raisedErr /\ ~claim.exists)

\* a constructor call with lines and a non-negative total off by 0.02 has raised
C11_Witness ==
    /\ Constructed /\ raisedErr /\ ~claim.exists
    /\ lastOp.args.claim_lines # <<>> /\ lastOp.args.total_billed_amount = 0
    /\ SumBilled(lastOp.args.claim_lines) = 2
    /\ lastOp.args.total_allowed_amount = Absent

\* C12: a MedicalClaim(...) call with claim_lines = [] raises whatever the
\* other arguments are, also with total_billed_amount = 0.
C12_EmptyLinesNeverConstruct ==
    (Constructed /\ lastOp.args.claim_lines = <<>>) => (raisedErr /\ ~claim.exists)

\* a constructor call with no lines and total 0 (equal to the empty sum) has raised
C12_Witness ==
    /\ Constructed /\ lastOp.args.claim_lines = <<>>
    /\ lastOp.args.total_billed_amount = 0
    /\ lastOp.args.total_allowed_amount = Absent /\ lastOp.args.total_paid_amount = Absent
    /\ raisedErr

\* C13: a calculate_totals call that directly follows a calculate_totals
\* call leaves the four totals as the first call left them.
C13_CalculateTotalsIdempotent ==
    [][(lastOp.name = "calculate_totals" /\ Recalculating)
        => Totals(claim') = Totals(claim)]_vars

\* calculate_totals has run twice in a row on a claim whose lines carry
\* allowed and paid amounts
C13_Witness ==
    /\ lastOp.name = "calculate_totals" /\ lastOp.prev = "calculate_totals"
    /\ HasAllowed(claim.claim_lines) /\ claim.patient_responsibility # Absent
    /\ claim.total_billed_amount > 0

\* C14: calculate_totals sets total_allowed_amount to the sum of the lines'
\* allowed amounts exactly when some line has a non-null allowed amount (0
\* included), likewise total_paid_amount, and sets patient_responsibility to
\* allowed - paid whenever both totals are then non-null (0 included).
C14_TotalsFromNonNullLines ==
    [][Recalculating =>
        LET ls == claim.claim_lines
        IN  /\ claim'.total_allowed_amount =
                    IF HasAllowed(ls) THEN Some(SumAllowed(ls)) ELSE claim.total_allowed_amount
            /\ claim'.total_paid_amount =
                    IF HasPaid(ls) THEN Some(SumPaid(ls)) ELSE claim.total_paid_amount
            /\ (claim'.total_allowed_amount # Absent /\ claim'.total_paid_amount # Absent)
                    => claim'.patient_responsibility =
                        Some(claim'.total_allowed_amount[1] - claim'.total_paid_amount[1])]_vars

NoLineCarries(ls) == ~HasAllowed(ls) /\ ~HasPaid(ls)

\* C15 as stated: calculate_totals makes total_billed_amount the sum of the
\* lines' billed amounts, and when no line carries an allowed or paid amount
\* it leaves total_allowed_amount, total_paid_amount and
\* patient_responsibility as they were.
C15_OnlyBilledTotalChanges ==
    [][Recalculating =>
        /\ claim'.total_billed_amount = SumBilled(claim.claim_lines)
        /\ NoLineCarries(claim.claim_lines) =>
                /\ claim'.total_allowed_amount = claim.total_allowed_amount
                /\ claim'.total_paid_amount = claim.total_paid_amount
                /\ claim'.patient_responsibility = claim.patient_responsibility]_vars

\* C15 as amended: calculate_totals makes total_billed_amount the sum of the
\* lines' billed amounts, and when no line carries an allowed or paid amount
\* it leaves total_allowed_amount and total_paid_amount as they were, and
\* patient_responsibility too when one of those two totals is absent.
C15_BilledTotalAndFrame ==
    [][Recalculating =>
        /\ claim'.total_billed_amount = SumBilled(claim.claim_lines)
        /\ NoLineCarries(claim.claim_lines) =>
                /\ claim'.total_allowed_amount = claim.total_allowed_amount
                /\ claim'.total_paid_amount = claim.total_paid_amount
                /\ (claim.total_allowed_amount = Absent \/ claim.total_paid_amount = Absent)
                        => claim'.patient_responsibility = claim.patient_responsibility]_vars

\* calculate_totals has run right after a line's billed amount was edited, on
\* a claim without allowed or paid amounts: the total is the new line sum
C15_Witness ==
    /\ lastOp.name = "calculate_totals" /\ lastOp.prev = "set_line_billed"
    /\ NoLineCarries(claim.claim_lines) /\ Len(claim.claim_lines) = 2
    /\ claim.total_billed_amount = 2
    /\ claim.total_allowed_amount = Absent /\ claim.patient_responsibility = Absent

\* C16: a MedicalClaim as the constructor leaves it, and as calculate_totals
\* then leaves it, has every monetary total that is present >= 0, also when
\* the lines' paid amounts exceed their allowed amounts.
C16_TotalsNonNegative ==
    (claim.exists /\ lastOp.name \in {"construct", "calculate_totals"}
        /\ lastOp.prev \in {"none", "construct"}) =>
        /\ claim.total_billed_amount >= 0
        /\ NonNegative(claim.total_allowed_amount)
        /\ NonNegative(claim.total_paid_amount)
        /\ NonNegative(claim.patient_responsibility)

(* ------------------------ publish-time gates -------------------------- *)
\* the step of send_claim that validates the claim and rejects or sends it
Validating == pc = "sc_entry" /\ log' # log
Submitted  == nSubmitted' = nSubmitted + 1

InBatch == op = "send_claim_batch" /\ callStatus = "running"
SubmittedOutcomes == {"pending", "delivered", "send_failed", "timed_out"}

\* C19: send_claim_batch hands claims to the backend in the order of
\* batch.claims, one at a time: when the claim at position i is handed over,
\* the send_claim calls for all earlier positions have ended, and the claims
\* tried so far are batch.claims[1..i-1] in that order.
C19_SubmitsInBatchOrder ==
    [][(InBatch /\ Submitted) =>
        /\ pc = "sc_entry" /\ cur = batch[idx]
        /\ Len(log) = idx - 1
        /\ \A i \in 1..Len(log) : log[i].claim = batch[i] /\ log[i].outcome # "pending"
        /\ log' = Append(log, [claim |-> batch[idx], gates |-> TRUE, outcome |-> "pending"])]_vars

\* a returned batch of two different claims, both handed to the backend
C19_Witness ==
    /\ BatchReturned /\ Len(batch) = 2 /\ batch[1] # batch[2]
    /\ log[1].claim = batch[1] /\ log[2].claim = batch[2]
    /\ log[1].outcome \in SubmittedOutcomes /\ log[2].outcome \in SubmittedOutcomes

\* C20: a send that exceeds its timeout ends its send_claim with a failure
\* and is not sent again: every send_claim call, and every claim of a
\* send_claim_batch call, is handed to the backend at most once.
C20_NoRetryAfterTimeout ==
    [][/\ (op \in {"send_claim", "send_claim_batch"} /\ Submitted) =>
            /\ Len(log') = Len(log) + 1
            /\ Len(log') = IF op = "send_claim" THEN 1 ELSE idx
       /\ (InBatch /\ callStatus' = "running") => idx' >= idx
       /\ (log' # log /\ Len(log') = Len(log) /\ Last(log').outcome = "timed_out") =>
            pc' = "sc_fail_rd" /\ ~Submitted
       /\ (pc = "sc_fail_rd" /\ pc' # pc) => pc' = "sc_fail_wr" /\ ~Submitted
       /\ (pc = "sc_fail_wr" /\ pc' # pc) =>
            /\ ~Submitted
            /\ IF op = "send_claim"
               THEN callStatus' = "returned" /\ retval' = "False"
               ELSE results'.failed = results.failed + 1 /\ idx' = idx + 1]_vars

\* a returned batch of two claims whose sends both timed out: two hand-overs
\* in all, both counted as failed
C20_Witness ==
    /\ BatchReturned /\ Len(batch) = 2 /\ nSubmitted = 2
    /\ log[1].outcome = "timed_out" /\ log[2].outcome = "timed_out"
    /\ results.failed = 2 /\ results.successful = 0

(* ------------------------ outcomes and statistics ---------------------- *)
FinalOutcomes == {"rejected", "delivered", "timed_out", "send_failed", "exception"}
\* a send_claim call made directly by the application returns
SendClaimReturns == op = "send_claim" /\ callStatus = "running" /\ callStatus' = "returned"
\* a send_claim call made by send_claim_batch returns into the loop
InnerSendClaimReturns == InBatch /\ idx' = idx + 1
FirstSendClaim == op = "send_claim" /\ nAttempts = 1
FirstSendAlert == op = "send_alert" /\ nAttempts = 1

\* C21: send_claim returns only with its outcome known, and returns True
\* (counts as successful in a batch) only if the backend had acknowledged
\* that claim's send when the call returned; otherwise it returns False.
C21_TrueOnlyWhenAcknowledged ==
    [][/\ SendClaimReturns =>
            /\ Len(log') = 1 /\ log'[1].outcome \in FinalOutcomes /\ log'[1].claim = cur
            /\ retval' \in {"True", "False"}
            /\ retval' = "True" <=> log'[1].outcome = "delivered"
            /\ retval' = "True" => (pc = "sc_wait" /\ sends[future].state = "acked")
       /\ InnerSendClaimReturns =>
            /\ Len(log') = idx /\ log'[idx].outcome \in FinalOutcomes
            /\ results'.successful = results.successful + 1 <=> log'[idx].outcome = "delivered"
            /\ results'.successful = results.successful + 1
                    => (pc = "sc_wait" /\ sends[future].state = "acked")
            /\ results'.successful + results'.failed = idx]_vars

\* send_claim has returned True for a claim the backend acknowledged
C21_Witness ==
    /\ op = "send_claim" /\ callStatus = "returned" /\ retval = "True"
    /\ Len(log) = 1 /\ log[1].outcome = "delivered" /\ nDelivered = 1

\* a maximum below the number of failures one producer can have here
ErrorsKept == MaxAttempts - 1

\* C22: the error list of the statistics never holds more than a fixed
\* maximum of entries, however many sends fail.
C22_ErrorListBounded ==
    Len(stats.errors) <= ErrorsKept

\* C23: a first send_claim that ends with a send failure reported by the
\* backend has added exactly one entry, carrying the error text, to the
\* error list, and has raised messages_failed by as much: by one.
C23_OneEntryPerSendFailure ==
    (FirstSendClaim /\ callStatus = "returned" /\ Len(log) = 1
        /\ log[1].outcome = "send_failed")
        => /\ Len(stats.errors) = 1
           /\ stats.errors[1].error = "KafkaError"
           /\ stats.messages_failed = Len(stats.errors)

\* C24: send_alert never raises, returns True only when the send to the
\* alerts stream was acknowledged, and when it returns False after the send
\* failed or timed out messages_failed has gone up by exactly one.
C24_AlertAccounting ==
    [][(FirstSendAlert /\ callStatus = "running" /\ callStatus' # "running") =>
        /\ callStatus' = "returned"
        /\ retval' = "True" => (pc = "al_wait" /\ sends[future].state = "acked")
        /\ (retval' = "False" /\ pc = "al_wait") => stats'.messages_failed = 1]_vars

\* C25: what get_stats returned is a read-only snapshot: editing the returned
\* error list leaves the producer's statistics as they were, and the
\* returned error list keeps the content it had when it was returned.
C25_SnapshotReadOnly ==
    [][/\ (snapshot.taken /\ snapshot'.edited /\ ~snapshot.edited) => stats' = stats
       /\ (snapshot.taken /\ snapshot'.taken /\ ~snapshot'.edited)
                => ReturnedErrors' = snapshot'.errors]_vars

\* C26: a send handed to the backend is counted in at most one of
\* messages_sent and messages_failed: during and after a first send_claim
\* that handed its claim over, the two counters add up to at most the number
\* of sends submitted, also when the call timed out and the backend
\* acknowledged the send afterwards.
C26_ClassifiedOnce ==
    (FirstSendClaim /\ Len(log) = 1 /\ log[1].outcome \in SubmittedOutcomes)
        => stats.messages_sent + stats.messages_failed <= nSubmitted

(* ----------------------------- ClaimBatch ----------------------------- *)
\* C18: a constructed ClaimBatch always has a non-empty claims sequence,
\* total_claims equal to the number of claims, and total_billed_amount within
\* 0.01 of the sum of the claims' totals, also after a member claim's total
\* was recalculated or the claims sequence was edited.
C18_BatchInvariants ==
    claimBatch.exists =>
        /\ claimBatch.claims # <<>>
        /\ claimBatch.total_claims = Len(claimBatch.claims)
        /\ Abs(claimBatch.total_billed_amount - SumTotals(claimBatch.claims)) <= 1

====
